---- MODULE Spec2Model ----
(***************************************************************************)
(* ServiceBusService (lib/service-bus/services/service-bus.service.ts):    *)
(* a cache of one ServiceBusSender per queue/topic name, the four          *)
(* operations that resolve a sender and delegate to it, and the teardown   *)
(* that closes the senders and then the client.                            *)
(*                                                                         *)
(* Every operation is an async function.  A call runs synchronously up to  *)
(* its first await; each later step is the settlement (fulfilment or       *)
(* rejection) of the awaited promise followed by the synchronous code up   *)
(* to the next await.  One action of the model is one such run.            *)
(*                                                                         *)
(* LoggerService (lib/logger/services/logger.service.ts): the request      *)
(* context kept in an AsyncLocalStorage, the properties built for every    *)
(* telemetry item, and the logging and tracking methods.                   *)
(*                                                                         *)
(* The helpers toLowerSnakeCase (lib/helpers/strings.ts), stripCosmosFields*)
(* and HttpExceptionFilter (lib/helpers/cosmos.ts), pure functions of      *)
(* their arguments, and the uploads of StorageService                      *)
(* (lib/storage/services/storage.service.ts).                              *)
(***************************************************************************)
EXTENDS Integers, Sequences, FiniteSets, TLC

\* ------------------------------------------------------------- bounds ----
\* Concurrent calls (call slots) of one behaviour.
MaxTasks == 3
\* sendBatch inputs of Spec: bodies per call (each of size 1, batches of
\* capacity 1).
MaxBodies == 2
\* sendBatch inputs of SpecBatch (a single sendBatch call, wider inputs):
\* bodies per call, payload sizes, batch capacities.
MaxBatchBodies == 4
MaxSize == 2
MaxCap == 3
\* SpecSched: enqueueAt values, sequence numbers one call returns.
MaxEnqueueAt == 2
MaxReturned == 2
\* SpecLogger: setRequestContext scopes nested in one another.
MaxScopes == 2
\* SpecHelpers and SpecStorage: characters of an input string, keys of an
\* extraKeys array, values randomUUID() returns in one behaviour.
MaxStrLen == 3
MaxExtraKeys == 2
MaxUuids == 2

Tasks == 1..MaxTasks
Keys == {"a", "b"}
\* Sequence numbers a sender hands out / a caller cancels.
SeqNums == {41, 42}

\* All sequences over S of length 0..n.
SeqsUpTo(S, n) == UNION {[1..m -> S] : m \in 0..n}

\* ------------------------------------------------------------- state -----
VARIABLES
    senders,    \* the Map `senders`: entries <<key, sender>> in insertion order
    createLog,  \* every client.createSender invocation, in order: [key, ok]
    closeLog,   \* every close() issued, in order: a sender id, or 0 for the client
    task,       \* the calls: one record per call slot
    asyncLocalStorage,  \* LoggerService.asyncLocalStorage: the stores of the
                        \* setRequestContext scopes entered and not yet left
    context,    \* the logger's `this.context`
    logCall,    \* the LoggerService call being made: its arguments and what
                \* it has handed to the telemetry client and to the console
    helperCall, \* the call of a helper being made: its arguments and result
    upload,     \* the StorageService upload being made: its arguments, the
                \* blob path it uploads to and its outcome
    issued      \* every value randomUUID() has returned, in order

\* The state of ServiceBusService and the state of LoggerService.
svcVars == <<senders, createLog, closeLog, task>>
logVars == <<asyncLocalStorage, context, logCall>>
\* The helper call and the state of StorageService.
fnVars == <<helperCall, upload, issued>>
vars ==
    <<senders, createLog, closeLog, task, asyncLocalStorage, context, logCall,
      helperCall, upload, issued>>

\* The client object of a close() in closeLog.
Client == 0
\* No sender resolved (yet).
NoSender == 0

\* ---------------------------------------------------- Map<string,Sender> --
\* Map.prototype.has
MapHas(m, k) == \E i \in 1..Len(m) : m[i].key = k

\* A lookup that answers with the first entry's sender, whatever the key.
MapGetFirst(m, k) == m[1].sender

\* Map.prototype.get (of a key the map has)
MapGet(m, k) == m[CHOOSE i \in 1..Len(m) : m[i].key = k].sender

\* A cache of one slot: setting a key drops every other entry.
MapSetOneSlot(m, k, s) == <<[key |-> k, sender |-> s]>>

\* Map.prototype.set: a present key keeps its place, a new key goes last.
MapSet(m, k, s) ==
    IF MapHas(m, k)
    THEN [i \in 1..Len(m) |-> IF m[i].key = k THEN [key |-> k, sender |-> s] ELSE m[i]]
    ELSE Append(m, [key |-> k, sender |-> s])

\* ------------------------------------------------------------ getSender --
\* getSender without the has() test: a sender is created on every call.
getSenderNoHas(m, log, k, createOk) ==
    IF createOk
    THEN [senders |-> MapSet(m, k, Len(log) + 1),
          createLog |-> Append(log, [key |-> k, ok |-> TRUE]),
          threw |-> FALSE, sender |-> Len(log) + 1]
    ELSE [senders |-> m,
          createLog |-> Append(log, [key |-> k, ok |-> FALSE]),
          threw |-> TRUE, sender |-> NoSender]

\* getSender that creates the sender first and stores it only for a new key.
getSenderCreateFirst(m, log, k, createOk) ==
    IF createOk
    THEN [senders |-> IF MapHas(m, k) THEN m ELSE MapSet(m, k, Len(log) + 1),
          createLog |-> Append(log, [key |-> k, ok |-> TRUE]),
          threw |-> FALSE,
          sender |-> IF MapHas(m, k) THEN MapGet(m, k) ELSE Len(log) + 1]
    ELSE [senders |-> m,
          createLog |-> Append(log, [key |-> k, ok |-> FALSE]),
          threw |-> TRUE, sender |-> NoSender]

\* getSender that reserves the key before createSender has returned.
getSenderSetFirst(m, log, k, createOk) ==
    IF MapHas(m, k)
    THEN [senders |-> m, createLog |-> log, threw |-> FALSE, sender |-> MapGet(m, k)]
    ELSE [senders |-> MapSet(m, k, Len(log) + 1),
          createLog |-> Append(log, [key |-> k, ok |-> createOk]),
          threw |-> ~createOk,
          sender |-> IF createOk THEN Len(log) + 1 ELSE NoSender]

\* getSender(queueOrTopic).  createOk: whether client.createSender returns a
\* sender (identified by the number of its invocation) or throws.  A throw
\* leaves before senders.set runs.
getSender(m, log, k, createOk) ==
    IF MapHas(m, k)
    THEN [senders |-> m, createLog |-> log, threw |-> FALSE, sender |-> MapGet(m, k)]
    ELSE IF createOk
         THEN [senders |-> MapSet(m, k, Len(log) + 1),
               createLog |-> Append(log, [key |-> k, ok |-> TRUE]),
               threw |-> FALSE, sender |-> Len(log) + 1]
         ELSE [senders |-> m,
               createLog |-> Append(log, [key |-> k, ok |-> FALSE]),
               threw |-> TRUE, sender |-> NoSender]

\* ---------------------------------------------------------- buildMessage --
\* The value of a field that was not given.
Undefined == "undefined"

\* options?: ServiceBusMessageOptions, by the one field messageId (the other
\* four are copied alike): no options, or options that give a messageId.
NoOptions == <<>>
OptionsSet == {NoOptions, [messageId |-> "m1"]}

\* buildMessage(body, options): the body and `options?.messageId`.
buildMessage(body, options) ==
    [body |-> body,
     messageId |-> IF "messageId" \in DOMAIN options
                   THEN options["messageId"] ELSE Undefined]

\* --------------------------------------------------------------- tasks ---
\* A call slot before its call.
IdleTask ==
    [op |-> "none", pc |-> "idle", key |-> "", sender |-> NoSender,
     bodies |-> <<>>, cap |-> 0, batch |-> <<>>, i |-> 1, sent |-> <<>>,
     arg |-> 0, result |-> <<>>, cause |-> "", idx |-> 0, late |-> FALSE,
     body |-> 0, options |-> <<>>, enqueueAt |-> 0, returned |-> <<>>]

\* Whether onModuleDestroy has been invoked (by any call).
DestroyInvoked == \E t \in Tasks : task[t].op = "onModuleDestroy"

\* Slot t may take the next call: slots are used in order.
CanCall(t) ==
    /\ task[t].pc = "idle"
    /\ \A u \in Tasks : u < t => task[u].pc # "idle"

\* A call of onModuleDestroy or of one of the four operations.
Ops == {"send", "sendBatch", "schedule", "cancelScheduled"}
OpTasks == {t \in Tasks : task[t].op \in Ops}
DestroyTasks == {t \in Tasks : task[t].op = "onModuleDestroy"}

\* A call with its arguments, before its first line runs.
NewTask(op, k) ==
    [IdleTask EXCEPT !.op = op, !.key = k, !.late = DestroyInvoked]

\* ------------------------------------------------------- message batch ---
\* A payload is modelled by its size; a message of a sendBatch call by its
\* place in `bodies`; a batch by the places of the messages it holds.
RECURSIVE BatchSize(_, _)
BatchSize(bodies, batch) ==
    IF batch = <<>> THEN 0
    ELSE bodies[Head(batch)] + BatchSize(bodies, Tail(batch))

\* tryAddMessage that lets one message too many in.
tryAddMessageOffByOne(bodies, cap, batch, i) ==
    BatchSize(bodies, batch) + bodies[i] <= cap + 1

\* ServiceBusMessageBatch.tryAddMessage: whether message i still fits a batch
\* of capacity cap (the message is added exactly when it does).
tryAddMessage(bodies, cap, batch, i) ==
    BatchSize(bodies, batch) + bodies[i] <= cap

\* The for loop of sendBatch from message i on, run up to its await: it
\* stops at the first message the batch refuses (full) or past the last one.
RECURSIVE RunLoop(_, _, _, _)
RunLoop(bodies, cap, batch, i) ==
    IF i > Len(bodies) THEN [batch |-> batch, i |-> i, full |-> FALSE]
    ELSE IF tryAddMessage(bodies, cap, batch, i)
         THEN RunLoop(bodies, cap, Append(batch, i), i + 1)
         ELSE [batch |-> batch, i |-> i, full |-> TRUE]

\* The final flush without its count test.
FinalFlushAlways(tk) ==
    [tk EXCEPT !.sent = Append(tk.sent, tk.batch), !.pc = "batch.49"]

\* After the loop: `if (batch.count > 0) await sender.sendMessages(batch)`.
FinalFlush(tk) ==
    IF Len(tk.batch) > 0
    THEN [tk EXCEPT !.sent = Append(tk.sent, tk.batch), !.pc = "batch.49"]
    ELSE [tk EXCEPT !.pc = "done"]

\* A loop that does not await the send of a full batch: the refused message
\* goes out at once in a batch of its own.
ContinueNoAwait(tk) ==
    LET r == RunLoop(tk.bodies, tk.cap, tk.batch, tk.i)
        at == [tk EXCEPT !.batch = r.batch, !.i = r.i]
    IN  IF r.full
        THEN [at EXCEPT !.sent = Append(Append(at.sent, at.batch), <<at.i>>),
                        !.batch = <<>>, !.i = at.i + 1, !.pc = "batch.42"]
        ELSE FinalFlush(at)

\* sendBatch from the loop's message tk.i on, up to the next await.
Continue(tk) ==
    LET r == RunLoop(tk.bodies, tk.cap, tk.batch, tk.i)
        at == [tk EXCEPT !.batch = r.batch, !.i = r.i]
    IN  IF r.full
        THEN [at EXCEPT !.sent = Append(at.sent, at.batch), !.pc = "batch.42"]
        ELSE FinalFlush(at)

\* Lines 43-44 without line 44: the new batch starts empty and the refused
\* message is passed over.
RefillSkip(tk) ==
    Continue([tk EXCEPT !.batch = <<>>, !.i = tk.i + 1])

\* Lines 43-44 once the new batch is there: the refused message is added to
\* it and the result of that tryAddMessage is not looked at.
Refill(tk) ==
    Continue([tk EXCEPT
        !.batch = IF tryAddMessage(tk.bodies, tk.cap, <<>>, tk.i) THEN <<tk.i>> ELSE <<>>,
        !.i = tk.i + 1])

\* ------------------------------------------------------ onModuleDestroy ---
\* A teardown that closes the first sender only.
DestroyStepFirstOnly(tk, m, clog) ==
    IF tk.idx = 0 /\ Len(m) > 0
    THEN [task |-> [tk EXCEPT !.idx = 1, !.sender = m[1].sender, !.pc = "destroy.70"],
          closeLog |-> Append(clog, m[1].sender)]
    ELSE [task |-> [tk EXCEPT !.sender = NoSender, !.pc = "destroy.72"],
          closeLog |-> Append(clog, Client)]

\* One step of `for (const sender of this.senders.values())`: the iterator
\* is live, so an entry added while the loop awaits is visited too; past the
\* last entry the loop ends and client.close() is issued.
DestroyStep(tk, m, clog) ==
    IF tk.idx + 1 <= Len(m)
    THEN [task |-> [tk EXCEPT !.idx = tk.idx + 1, !.sender = m[tk.idx + 1].sender,
                              !.pc = "destroy.70"],
          closeLog |-> Append(clog, m[tk.idx + 1].sender)]
    ELSE [task |-> [tk EXCEPT !.sender = NoSender, !.pc = "destroy.72"],
          closeLog |-> Append(clog, Client)]

\* ======================================================== LoggerService ==
\* (lib/logger/services/logger.service.ts)  A call of a logging or tracking
\* method is synchronous: it builds the properties, hands one item to the
\* telemetry client inside trackSafely and, for the logging methods, calls
\* the console logger it extends.  One action of the model is one such call,
\* the entry of a setRequestContext callback, its return, or a setContext.

\* An argument that was left out, null, a string, an object.
Absent == [type |-> "undefined"]
Null == [type |-> "null"]
Str(s) == [type |-> "string", value |-> s]
Obj(o) == [type |-> "object", value |-> o]

\* An object as the function from its keys to their values; {} is <<>>.
\* { ...a, ...b }: the keys of both, b's value where both have the key.
Spread(a, b) ==
    [k \in DOMAIN a \cup DOMAIN b |-> IF k \in DOMAIN b THEN b[k] ELSE a[k]]

\* A getRequestContext that never finds a store.
getRequestContextNoStore == <<>>

\* getRequestContext(): `asyncLocalStorage.getStore() || {}`.  The store is
\* the context of the innermost scope being run, none outside every scope.
getRequestContext ==
    IF asyncLocalStorage = <<>> THEN <<>>
    ELSE asyncLocalStorage[Len(asyncLocalStorage)]

\* A buildProperties that spreads the request context last.
buildPropertiesContextLast(metadata, now) ==
    Spread(Spread([context |-> context, timestamp |-> now],
                  IF metadata.type = "object" THEN metadata.value ELSE <<>>),
           getRequestContext)

\* buildProperties(metadata): { context, timestamp, ...requestContext,
\* ...(metadata || {}) }.  now: what `new Date().toISOString()` gives.
buildProperties(metadata, now) ==
    Spread(Spread([context |-> context, timestamp |-> now], getRequestContext),
           IF metadata.type = "object" THEN metadata.value ELSE <<>>)

\* A trackSafely without its try/catch: a throw of the client goes on to
\* the caller.
trackUnsafely(item, clientOk) ==
    [tracked |-> <<item>>, console |-> <<>>,
     clientThrew |-> ~clientOk, threw |-> ~clientOk]

\* trackSafely(fn): the item fn hands to the telemetry client, and the
\* console.warn that follows when the client throws (clientOk false); the
\* throw goes no further.
trackSafely(item, clientOk) ==
    [tracked |-> <<item>>,
     console |-> IF clientOk THEN <<>>
                 ELSE <<[level |-> "console.warn", message |-> "[nest-kit]"]>>,
     clientThrew |-> ~clientOk, threw |-> FALSE]

\* The statement after a trackSafely call, the console logger's method: it
\* runs unless the call threw.
ThenConsole(t, entry) ==
    IF t.threw THEN t ELSE [t EXCEPT !.console = Append(t.console, entry)]

\* formatLogMessage / extractError of a message that is a string.
formatLogMessage(message) == message
extractError(message) == [name |-> "Error", message |-> message]

\* `context || this.context`
ContextOrThis(c) == IF c.type = "string" THEN c.value ELSE context

\* log, warn, debug and verbose are one body, up to the severity and the
\* console method: a string second argument is the console context, anything
\* else the metadata.
TraceMethod(level, severity, message, metadataOrContext, now, clientOk) ==
    LET isContext == metadataOrContext.type = "string"
        metadata == IF ~isContext THEN metadataOrContext ELSE Absent
        ctx == IF isContext THEN metadataOrContext ELSE Absent
        t == trackSafely([kind |-> "trackTrace",
                          message |-> formatLogMessage(message),
                          properties |-> buildProperties(metadata, now),
                          severity |-> severity], clientOk)
    IN  ThenConsole(t,
             [level |-> level, message |-> message, context |-> ContextOrThis(ctx)])

log(message, metadataOrContext, now, clientOk) ==
    TraceMethod("log", "Information", message, metadataOrContext, now, clientOk)

warn(message, metadataOrContext, now, clientOk) ==
    TraceMethod("warn", "Warning", message, metadataOrContext, now, clientOk)

debug(message, metadataOrContext, now, clientOk) ==
    TraceMethod("debug", "Verbose", message, metadataOrContext, now, clientOk)

verbose(message, metadataOrContext, now, clientOk) ==
    TraceMethod("verbose", "Verbose", message, metadataOrContext, now, clientOk)

\* error(message, stackOrMetadata, context, metadata)
error(message, stackOrMetadata, ctx, metadata, now, clientOk) ==
    LET isMetadata == stackOrMetadata.type = "object"
        actualMetadata == IF isMetadata THEN stackOrMetadata
                          ELSE IF metadata.type = "object" THEN metadata ELSE Absent
        stack == IF ~isMetadata THEN stackOrMetadata ELSE Absent
        t == trackSafely([kind |-> "trackException",
                          exception |-> extractError(message),
                          properties |-> buildProperties(actualMetadata, now),
                          severity |-> "Error"], clientOk)
    IN  ThenConsole(t,
             [level |-> "error", message |-> message, stack |-> stack,
              context |-> ContextOrThis(ctx)])

\* critical(message, stackOrMetadata, context)
critical(message, stackOrMetadata, ctx, now, clientOk) ==
    LET isMetadata == stackOrMetadata.type = "object"
        metadata == IF isMetadata THEN stackOrMetadata ELSE Absent
        stack == IF ~isMetadata THEN stackOrMetadata ELSE Absent
        t == trackSafely([kind |-> "trackException",
                          exception |-> extractError(message),
                          properties |-> buildProperties(metadata, now),
                          severity |-> "Critical"], clientOk)
    IN  ThenConsole(t,
             [level |-> "error", message |-> message, stack |-> stack,
              context |-> ContextOrThis(ctx)])

\* A fatal that goes through error.
fatalAsError(message, stackOrMetadata, ctx, now, clientOk) ==
    error(message, stackOrMetadata, ctx, Absent, now, clientOk)

\* fatal(message, stackOrMetadata, context): this.critical with the same.
fatal(message, stackOrMetadata, ctx, now, clientOk) ==
    critical(message, stackOrMetadata, ctx, now, clientOk)

\* trackEvent(name, properties) and trackMetric(name, value, properties);
\* measurements and value are passed on as they are and left out here.
trackEvent(name, properties, now, clientOk) ==
    LET t == trackSafely([kind |-> "trackEvent", name |-> name,
                          properties |-> buildProperties(properties, now)], clientOk)
    IN  t

trackMetric(name, properties, now, clientOk) ==
    LET t == trackSafely([kind |-> "trackMetric", name |-> name,
                          properties |-> buildProperties(properties, now)], clientOk)
    IN  t

\* A trackDependency that tests resultCode for truthiness (0 counts as
\* not supplied).
trackDependencyTruthy(name, success, resultCode, properties, now, clientOk) ==
    LET supplied == /\ resultCode.type # "undefined"
                    /\ ~(resultCode.type = "number" /\ resultCode.value = 0)
        t == trackSafely([kind |-> "trackDependency", name |-> name,
                          success |-> success,
                          resultCode |->
                              IF supplied
                              THEN (IF resultCode.type = "number"
                                    THEN ToString(resultCode.value)
                                    ELSE resultCode.value)
                              ELSE IF success THEN "200" ELSE "500",
                          properties |-> buildProperties(properties, now)], clientOk)
    IN  t

\* trackDependency(name, duration, success, resultCode, ..., properties):
\* resultCode is absent, a number or a string.
trackDependency(name, success, resultCode, properties, now, clientOk) ==
    LET t == trackSafely([kind |-> "trackDependency", name |-> name,
                          success |-> success,
                          resultCode |->
                              IF resultCode.type # "undefined"
                              THEN (IF resultCode.type = "number"
                                    THEN ToString(resultCode.value)
                                    ELSE resultCode.value)
                              ELSE IF success THEN "200" ELSE "500",
                          properties |-> buildProperties(properties, now)], clientOk)
    IN  t

\* No LoggerService call is being made.
\* ------------------------------------------------------ helpers/strings ---
\* A string is the sequence of its characters, each a one-character string.
UpperCase ==
    <<"A", "B", "C", "D", "E", "F", "G", "H", "I", "J", "K", "L", "M",
      "N", "O", "P", "Q", "R", "S", "T", "U", "V", "W", "X", "Y", "Z">>
LowerCase ==
    <<"a", "b", "c", "d", "e", "f", "g", "h", "i", "j", "k", "l", "m",
      "n", "o", "p", "q", "r", "s", "t", "u", "v", "w", "x", "y", "z">>
\* The characters of the class \s that the inputs use.
WhiteSpace == {" ", "\t"}

\* [A-Z]
IsUpper(c) == \E i \in DOMAIN UpperCase : UpperCase[i] = c
\* [\s\-]
IsSeparator(c) == c \in WhiteSpace \cup {"-"}

\* .replace(/([A-Z])/g, '_$1'): an underscore before every capital.
RECURSIVE insertUnderscores(_)
insertUnderscores(str) ==
    IF str = <<>> THEN <<>>
    ELSE (IF IsUpper(Head(str)) THEN <<"_", Head(str)>> ELSE <<Head(str)>>)
            \o insertUnderscores(Tail(str))

\* str without its leading separators.
RECURSIVE dropSeparators(_)
dropSeparators(str) ==
    IF str # <<>> /\ IsSeparator(Head(str)) THEN dropSeparators(Tail(str))
    ELSE str

\* .replace(/[\s\-]+/g, '_'): one underscore for every maximal run of
\* whitespace and dashes.
RECURSIVE collapseSeparators(_)
collapseSeparators(str) ==
    IF str = <<>> THEN <<>>
    ELSE IF IsSeparator(Head(str))
         THEN <<"_">> \o collapseSeparators(dropSeparators(Tail(str)))
         ELSE <<Head(str)>> \o collapseSeparators(Tail(str))

\* .replace(/^_/, ''): one leading underscore removed.
dropLeadingUnderscore(str) ==
    IF str # <<>> /\ Head(str) = "_" THEN Tail(str) ELSE str

\* .toLowerCase()
toLowerCase(str) ==
    [i \in 1..Len(str) |->
        IF IsUpper(str[i])
        THEN LowerCase[CHOOSE j \in DOMAIN UpperCase : UpperCase[j] = str[i]]
        ELSE str[i]]

\* toLowerSnakeCase(str), lib/helpers/strings.ts.
toLowerSnakeCase(str) ==
    toLowerCase(dropLeadingUnderscore(collapseSeparators(insertUnderscores(str))))

\* ------------------------------------------------------- helpers/cosmos ---
\* key.startsWith(prefix)
startsWith(str, prefix) ==
    /\ Len(str) >= Len(prefix)
    /\ SubSeq(str, 1, Len(prefix)) = prefix

\* A stripCosmosFields that removes the system fields only.
stripCosmosFieldsSystemOnly(document, extraKeys) ==
    [key \in {k \in DOMAIN document : ~startsWith(k, <<"_">>)} |-> document[key]]

\* stripCosmosFields(document, extraKeys): the entries of document whose key
\* neither starts with '_' nor is in `new Set(extraKeys)`.  A document is
\* the function from its keys to their values, extraKeys an array.
stripCosmosFields(document, extraKeys) ==
    LET excluded == {extraKeys[i] : i \in DOMAIN extraKeys}
    IN  [key \in {k \in DOMAIN document :
                     ~startsWith(k, <<"_">>) /\ k \notin excluded}
            |-> document[key]]

\* HttpExceptionFilter.catch(exception, host): what it sets on the response.
\* status is exception.getStatus(), body exception.getResponse(), now what
\* `new Date().toISOString()` gives.  typeof null is 'object' and spreading
\* null adds no key.
catch(status, body, now) ==
    [status |-> status,
     json |-> Spread(Spread([statusCode |-> status],
                            IF body.type = "object" THEN body.value
                            ELSE IF body.type = "null" THEN <<>>
                            ELSE [message |-> body.value]),
                     [timestamp |-> now])]

NoHelperCall == [fn |-> "none"]

\* ------------------------------------------------------- StorageService ---
\* lib/storage/services/storage.service.ts.  uploadBuffer runs synchronously
\* up to `await blockBlobClient.uploadData(...)` and returns its result when
\* the upload is fulfilled; uploadFile builds the name and delegates to it.
HexDigits ==
    <<"0", "1", "2", "3", "4", "5", "6", "7",
      "8", "9", "a", "b", "c", "d", "e", "f">>
Repeat(c, n) == [i \in 1..n |-> c]
\* A value of randomUUID(): groups of 8, 4, 4, 4 and 12 hex digits joined
\* by dashes.
UuidOf(c) ==
    Repeat(c, 8) \o <<"-">> \o Repeat(c, 4) \o <<"-">> \o Repeat(c, 4)
        \o <<"-">> \o Repeat(c, 4) \o <<"-">> \o Repeat(c, 12)

\* .replace(/-/g, '')
removeDashes(str) == SelectSeq(str, LAMBDA c : c # "-")

\* A parseFilename that splits at the first dot.
parseFilenameFirstDot(filename) ==
    LET dots == {i \in 1..Len(filename) : filename[i] = "."}
    IN  IF dots = {} THEN [base |-> filename, ext |-> <<>>]
        ELSE LET firstDot == CHOOSE i \in dots : \A j \in dots : i <= j
             IN  [base |-> SubSeq(filename, 1, firstDot - 1),
                  ext |-> SubSeq(filename, firstDot + 1, Len(filename))]

\* parseFilename(filename): split at lastIndexOf('.').
parseFilename(filename) ==
    LET dots == {i \in 1..Len(filename) : filename[i] = "."}
    IN  IF dots = {} THEN [base |-> filename, ext |-> <<>>]
        ELSE LET lastDot == CHOOSE i \in dots : \A j \in dots : j <= i
             IN  [base |-> SubSeq(filename, 1, lastDot - 1),
                  ext |-> SubSeq(filename, lastDot + 1, Len(filename))]

\* .replace(/\/+$/, ''): the trailing slashes removed.
RECURSIVE removeTrailingSlashes(_)
removeTrailingSlashes(str) ==
    IF str # <<>> /\ str[Len(str)] = "/"
    THEN removeTrailingSlashes(SubSeq(str, 1, Len(str) - 1))
    ELSE str

\* A resolveBlobPath that removes one trailing slash.
resolveBlobPathOneSlash(blobName, folder) ==
    IF folder = Absent \/ folder.value = <<>> THEN blobName
    ELSE (IF folder.value[Len(folder.value)] = "/"
          THEN SubSeq(folder.value, 1, Len(folder.value) - 1)
          ELSE folder.value) \o <<"/">> \o blobName

\* resolveBlobPath(blobName, folder): `!folder` holds of a folder left out
\* and of the empty string.
resolveBlobPath(blobName, folder) ==
    IF folder = Absent \/ folder.value = <<>> THEN blobName
    ELSE removeTrailingSlashes(folder.value) \o <<"/">> \o blobName

\* generateBlobName(base, ext); uuid is what randomUUID() gives.
generateBlobName(base, ext, uuid) ==
    LET safeName == toLowerSnakeCase(base)
        id == removeDashes(uuid)
    IN  IF ext # Absent /\ ext.value # <<>>
        THEN safeName \o <<"_">> \o id \o <<".">> \o ext.value
        ELSE safeName \o <<"_">> \o id

\* uploadBuffer up to its await: the blob path it resolves and the options
\* it hands to uploadData.  randomUUID() is called only for a blobName
\* left out.
uploadBuffer(blobName, contentType, folder, uuid) ==
    LET resolvedBlobName ==
            resolveBlobPath(IF blobName = Absent
                            THEN generateBlobName(<<"b", "l", "o", "b">>, Absent, uuid)
                            ELSE blobName.value,
                            folder)
    IN  [path |-> resolvedBlobName,
         blobHTTPHeaders |->
            IF contentType # Absent /\ contentType.value # ""
            THEN [blobContentType |-> contentType.value]
            ELSE Undefined]

\* uploadFile: the name it generates, handed to uploadBuffer as blobName
\* with the file's mimetype as contentType.
uploadFile(originalname, mimetype, blobName, folder, uuid) ==
    LET parsed == parseFilename(originalname)
        resolvedBlobName ==
            generateBlobName(IF blobName = Absent THEN parsed.base
                             ELSE blobName.value,
                             Str(parsed.ext), uuid)
    IN  uploadBuffer(Str(resolvedBlobName), Str(mimetype), folder, uuid)

NoUpload == [method |-> "none"]

NoCall ==
    [method |-> "none", args |-> <<>>, now |-> "", scopes |-> <<>>,
     name |-> Undefined, tracked |-> <<>>, console |-> <<>>,
     clientThrew |-> FALSE, threw |-> FALSE]

\* ------------------------------------------------------------- actions ---
Init ==
    /\ senders = <<>>
    /\ createLog = <<>>
    /\ closeLog = <<>>
    /\ task = [t \in Tasks |-> IdleTask]
    /\ asyncLocalStorage = <<>>
    /\ context = Undefined
    /\ logCall = NoCall
    /\ helperCall = NoHelperCall
    /\ upload = NoUpload
    /\ issued = <<>>

\* The call `new` (a task with its arguments) up to its first await: first
\* getSender, which may throw, then the sender call of that line, issued
\* with the arguments `sent`, at whose await (pc) the call suspends.
Call(t, new, createOk, pc, sent) ==
    LET g == getSender(senders, createLog, new.key, createOk)
    IN  /\ CanCall(t)
        /\ senders' = g.senders
        /\ createLog' = g.createLog
        /\ task' = [task EXCEPT ![t] =
              IF g.threw
              THEN [new EXCEPT !.pc = "failed", !.cause = "createSender"]
              ELSE [new EXCEPT !.sender = g.sender, !.pc = pc, !.sent = sent]]
        /\ UNCHANGED <<closeLog, logVars, fnVars>>

\* send(queueOrTopic, body, options): lines 26-27.
CallSend(t, k, body, options, createOk) ==
    Call(t, [NewTask("send", k) EXCEPT !.body = body, !.options = options],
         createOk, "send.27", << <<buildMessage(body, options)>> >>)

\* sendBatch(queueOrTopic, bodies): lines 35-36.  cap: the capacity of the
\* batches the sender's createMessageBatch hands out.
CallSendBatch(t, k, bodies, cap, createOk) ==
    Call(t, [NewTask("sendBatch", k) EXCEPT !.bodies = bodies, !.cap = cap],
         createOk, "batch.36", <<>>)

\* schedule(queueOrTopic, body, enqueueAt, options): lines 59-60; the
\* arguments of scheduleMessages are the built message and enqueueAt.
CallSchedule(t, k, body, enqueueAt, options, createOk) ==
    Call(t, [NewTask("schedule", k) EXCEPT !.body = body, !.options = options,
                                           !.enqueueAt = enqueueAt],
         createOk, "schedule.60", << <<buildMessage(body, options), enqueueAt>> >>)

\* A cancelScheduled that passes an empty collection.
CallCancelScheduledNone(t, k, n, createOk) ==
    Call(t, [NewTask("cancelScheduled", k) EXCEPT !.arg = n],
         createOk, "cancel.65", << <<>> >>)

\* cancelScheduled(queueOrTopic, sequenceNumber): lines 64-65.
CallCancelScheduled(t, k, n, createOk) ==
    Call(t, [NewTask("cancelScheduled", k) EXCEPT !.arg = n],
         createOk, "cancel.65", <<<<n>>>>)

\* onModuleDestroy(): up to the first close() it awaits.
CallOnModuleDestroy(t) ==
    LET d == DestroyStep(NewTask("onModuleDestroy", ""), senders, closeLog)
    IN  /\ CanCall(t)
        /\ task' = [task EXCEPT ![t] = d.task]
        /\ closeLog' = d.closeLog
        /\ UNCHANGED <<senders, createLog, logVars, fnVars>>

Awaiting == {"send.27", "batch.36", "batch.42", "batch.43", "batch.49",
             "schedule.60", "cancel.65", "destroy.70", "destroy.72"}

\* The shape of the state.
TypeOK ==
    /\ \A i \in 1..Len(senders) :
          senders[i].key \in Keys /\ senders[i].sender \in 1..Len(createLog)
    /\ \A i \in 1..Len(createLog) :
          createLog[i].key \in Keys /\ createLog[i].ok \in BOOLEAN
    /\ \A i \in 1..Len(closeLog) : closeLog[i] \in {Client} \cup 1..Len(createLog)
    /\ \A t \in Tasks :
          /\ task[t].op \in Ops \cup {"none", "onModuleDestroy"}
          /\ task[t].pc \in Awaiting \cup {"idle", "done", "failed"}
          /\ task[t].cause \in {"", "createSender", "rejected"}
          /\ task[t].sender \in {NoSender} \cup 1..Len(createLog)

\* The awaited promise of call t is fulfilled and the call runs on to its
\* next await or its end.
Resolve(t) ==
    LET tk == task[t]
        d == DestroyStep(tk, senders, closeLog)
    IN  /\ tk.pc \in Awaiting \ {"schedule.60"}
        /\ task' = [task EXCEPT ![t] =
              CASE tk.pc = "send.27" -> [tk EXCEPT !.pc = "done"]
                [] tk.pc = "cancel.65" -> [tk EXCEPT !.pc = "done"]
                [] tk.pc = "batch.36" -> Continue(tk)
                [] tk.pc = "batch.42" -> [tk EXCEPT !.pc = "batch.43"]
                [] tk.pc = "batch.43" -> Refill(tk)
                [] tk.pc = "batch.49" -> [tk EXCEPT !.pc = "done"]
                [] tk.pc = "destroy.70" -> d.task
                [] tk.pc = "destroy.72" -> [tk EXCEPT !.pc = "done"]]
        /\ closeLog' = IF tk.pc = "destroy.70" THEN d.closeLog ELSE closeLog
        /\ UNCHANGED <<senders, createLog, logVars, fnVars>>

\* A schedule that returns the first sequence number only.
ScheduleReturnFirst(ns) == IF ns = <<>> THEN <<>> ELSE <<Head(ns)>>

\* `return sender.scheduleMessages(...)`: what schedule's caller gets of the
\* sequence numbers ns the sender's promise was fulfilled with.
ScheduleReturn(ns) == ns

\* scheduleMessages is fulfilled with the sequence numbers ns (returned),
\* and schedule's own promise with what line 60 returns of them (result).
ResolveSchedule(t, ns) ==
    /\ task[t].pc = "schedule.60"
    /\ task' = [task EXCEPT ![t] =
          [@ EXCEPT !.returned = ns, !.result = ScheduleReturn(ns), !.pc = "done"]]
    /\ UNCHANGED <<senders, createLog, closeLog, logVars, fnVars>>

\* A rejection that drops the key's sender from the cache.
RejectEvict(t) ==
    /\ task[t].pc \in Awaiting
    /\ task' = [task EXCEPT ![t] = [@ EXCEPT !.pc = "failed", !.cause = "rejected"]]
    /\ senders' = SelectSeq(senders, LAMBDA e : e.key # task[t].key)
    /\ UNCHANGED <<createLog, closeLog, logVars, fnVars>>

\* The awaited promise of call t is rejected: no operation catches, so the
\* call ends there and its caller gets the rejection.
Reject(t) ==
    /\ task[t].pc \in Awaiting
    /\ task' = [task EXCEPT ![t] = [@ EXCEPT !.pc = "failed", !.cause = "rejected"]]
    /\ UNCHANGED <<senders, createLog, closeLog, logVars, fnVars>>

\* The payload of a single send or schedule.
Bodies == {1}

Next ==
    \/ \E t \in Tasks, k \in Keys, body \in Bodies, ok \in BOOLEAN :
          CallSend(t, k, body, NoOptions, ok)
    \/ \E t \in Tasks, k \in Keys, ok \in BOOLEAN :
          \E bodies \in SeqsUpTo({1}, MaxBodies) :
             CallSendBatch(t, k, bodies, 1, ok)
    \/ \E t \in Tasks, k \in Keys, body \in Bodies, ok \in BOOLEAN :
          CallSchedule(t, k, body, 1, NoOptions, ok)
    \/ \E t \in Tasks, k \in Keys, n \in SeqNums, ok \in BOOLEAN :
          CallCancelScheduled(t, k, n, ok)
    \/ \E t \in Tasks : CallOnModuleDestroy(t)
    \/ \E t \in Tasks : Resolve(t)
    \/ \E t \in Tasks, n \in SeqNums : ResolveSchedule(t, <<n>>)
    \/ \E t \in Tasks : Reject(t)

Spec == Init /\ [][Next]_vars

\* A single sendBatch call over the wider inputs.
NextBatch ==
    \/ \E k \in Keys, cap \in 1..MaxCap, ok \in BOOLEAN :
          \E bodies \in SeqsUpTo(1..MaxSize, MaxBatchBodies) :
             CallSendBatch(1, k, bodies, cap, ok)
    \/ Resolve(1)
    \/ Reject(1)

SpecBatch == Init /\ [][NextBatch]_vars

\* The calls of schedule and cancelScheduled over the wider inputs: a first
\* and a second call, each one or the other.
SchedTasks == {1, 2}
EnqueueAts == 1..MaxEnqueueAt

NextSched ==
    \/ \E t \in SchedTasks, k \in Keys, body \in Bodies, ok \in BOOLEAN :
          \E at \in EnqueueAts, options \in OptionsSet :
             CallSchedule(t, k, body, at, options, ok)
    \/ \E t \in SchedTasks, k \in Keys, n \in SeqNums, ok \in BOOLEAN :
          CallCancelScheduled(t, k, n, ok)
    \/ \E t \in SchedTasks : Resolve(t)
    \/ \E t \in SchedTasks : \E ns \in SeqsUpTo(SeqNums, MaxReturned) :
          ResolveSchedule(t, ns)
    \/ \E t \in SchedTasks : Reject(t)

SpecSched == Init /\ [][NextSched]_vars

\* ------------------------------------------------ LoggerService actions ---
\* The inputs of the LoggerService calls.
Messages == {"boom"}
ContextNames == {"OrdersService"}
IsoTimes == {"2026-01-01T00:00:00.000Z", "2026-01-01T00:00:01.000Z"}
RequestContexts ==
    {[requestId |-> "req-1", userId |-> "user-1"],
     [requestId |-> "req-2"],
     [userId |-> "user-3", context |-> "ctx-name"]}
Metadatas ==
    {<<>>,
     [orderId |-> "o-1"],
     [userId |-> "meta-user"],
     [requestId |-> "meta-req", timestamp |-> "meta-time"]}
MetaArgs == {Absent} \cup {Obj(m) : m \in Metadatas}
StringArgs == {Absent, Str("Label")}
SecondArgs == MetaArgs \cup StringArgs \cup {Null}
ResultCodes == {Absent, Str("404"), [type |-> "number", value |-> 0],
                [type |-> "number", value |-> 404]}

\* The shape of the LoggerService state.
LoggerTypeOK ==
    /\ asyncLocalStorage \in SeqsUpTo(RequestContexts, MaxScopes)
    /\ context \in ContextNames \cup {Undefined}
    /\ logCall.method \in {"none", "log", "warn", "debug", "verbose", "error",
                            "critical", "fatal", "trackEvent", "trackMetric",
                            "trackDependency"}
    /\ Len(logCall.tracked) <= 1

\* LoggerService.setRequestContext(ctx, callback): asyncLocalStorage.run
\* makes ctx the store and starts the callback.
setRequestContext(ctx) ==
    /\ logCall = NoCall
    /\ Len(asyncLocalStorage) < MaxScopes
    /\ asyncLocalStorage' = Append(asyncLocalStorage, ctx)
    /\ UNCHANGED <<context, logCall, svcVars, fnVars>>

\* The callback of the innermost scope returns and run() puts back the
\* store there was before it.
CallbackReturns ==
    /\ logCall = NoCall
    /\ asyncLocalStorage # <<>>
    /\ asyncLocalStorage' = SubSeq(asyncLocalStorage, 1, Len(asyncLocalStorage) - 1)
    /\ UNCHANGED <<context, logCall, svcVars, fnVars>>

\* setContext(name) of the ConsoleLogger that LoggerService extends.
setContext(name) ==
    /\ logCall = NoCall
    /\ context' = name
    /\ UNCHANGED <<asyncLocalStorage, logCall, svcVars, fnVars>>

\* A call of `method` with `args`, made at time `now`, with its effects;
\* scopes and name are the scopes and the context name it is made in.
\* The methods are synchronous: one call is made at a time.
Invoke(method, args, now, effects) ==
    /\ logCall = NoCall
    /\ logCall' = [method |-> method, args |-> args, now |-> now,
                    scopes |-> asyncLocalStorage, name |-> context,
                    tracked |-> effects.tracked, console |-> effects.console,
                    clientThrew |-> effects.clientThrew, threw |-> effects.threw]
    /\ UNCHANGED <<asyncLocalStorage, context, svcVars, fnVars>>

\* The call being made returns to its caller.
Return ==
    /\ logCall # NoCall
    /\ logCall' = NoCall
    /\ UNCHANGED <<asyncLocalStorage, context, svcVars, fnVars>>

NextLogger ==
    \/ \E ctx \in RequestContexts : setRequestContext(ctx)
    \/ CallbackReturns
    \/ \E name \in ContextNames : setContext(name)
    \/ Return
    \/ \E m \in Messages, a \in SecondArgs, now \in IsoTimes, ok \in BOOLEAN :
          Invoke("log", <<m, a>>, now, log(m, a, now, ok))
    \/ \E m \in Messages, a \in SecondArgs, now \in IsoTimes, ok \in BOOLEAN :
          Invoke("warn", <<m, a>>, now, warn(m, a, now, ok))
    \/ \E m \in Messages, a \in SecondArgs, now \in IsoTimes, ok \in BOOLEAN :
          Invoke("debug", <<m, a>>, now, debug(m, a, now, ok))
    \/ \E m \in Messages, a \in SecondArgs, now \in IsoTimes, ok \in BOOLEAN :
          Invoke("verbose", <<m, a>>, now, verbose(m, a, now, ok))
    \/ \E m \in Messages, a \in SecondArgs, c \in StringArgs, now \in IsoTimes,
          ok \in BOOLEAN :
          \E md \in IF a.type = "object" THEN {Absent} ELSE MetaArgs :
             Invoke("error", <<m, a, c, md>>, now, error(m, a, c, md, now, ok))
    \/ \E m \in Messages, a \in SecondArgs, c \in StringArgs, now \in IsoTimes,
          ok \in BOOLEAN :
          Invoke("critical", <<m, a, c>>, now, critical(m, a, c, now, ok))
    \/ \E m \in Messages, a \in SecondArgs, c \in StringArgs, now \in IsoTimes,
          ok \in BOOLEAN :
          Invoke("fatal", <<m, a, c>>, now, fatal(m, a, c, now, ok))
    \/ \E n \in Messages, a \in MetaArgs, now \in IsoTimes, ok \in BOOLEAN :
          Invoke("trackEvent", <<n, a>>, now, trackEvent(n, a, now, ok))
    \/ \E n \in Messages, a \in MetaArgs, now \in IsoTimes, ok \in BOOLEAN :
          Invoke("trackMetric", <<n, a>>, now, trackMetric(n, a, now, ok))
    \/ \E n \in Messages, a \in MetaArgs, now \in IsoTimes, ok \in BOOLEAN :
          \E success \in BOOLEAN, rc \in ResultCodes :
             Invoke("trackDependency", <<n, success, rc, a>>, now,
                    trackDependency(n, success, rc, a, now, ok))

SpecLogger == Init /\ [][NextLogger]_vars

\* --------------------------------------------------------- helper calls ---
\* The inputs of toLowerSnakeCase: every string over SnakeAlphabet of up to
\* MaxStrLen characters, and the three inputs of its documentation.
SnakeAlphabet == {"a", "B", " ", "-", "_"}
myFileName == <<"m", "y", "F", "i", "l", "e", "N", "a", "m", "e">>
MyPhoto == <<"M", "y", " ", "P", "h", "o", "t", "o">>
helloWorld == <<"h", "e", "l", "l", "o", "-", "w", "o", "r", "l", "d">>
SnakeInputs ==
    SeqsUpTo(SnakeAlphabet, MaxStrLen) \cup {myFileName, MyPhoto, helloWorld}

\* The inputs of stripCosmosFields: documents over DocumentKeys, extraKeys
\* arrays of up to MaxExtraKeys keys.
DocumentKeys ==
    {<<"_", "t", "s">>, <<"i", "d">>, <<"t", "t", "l">>, <<"a", "_">>}
DocumentValues == {"v1", "v2"}
Documents == UNION {[D -> DocumentValues] : D \in SUBSET DocumentKeys}
ExtraKeys == {<<"i", "d">>, <<"_", "t", "s">>, <<"x">>}

\* The inputs of HttpExceptionFilter.catch: getStatus() and getResponse().
HttpStatuses == {400, 404, 500}
Payloads ==
    {Str("Not Found"),
     Null,
     Obj([code |-> "E_ORDER", message |-> "No such order"]),
     Obj([statusCode |-> 404, message |-> "Not Found"]),
     Obj([statusCode |-> 418, message |-> "I'm a teapot"]),
     Obj([timestamp |-> "payload-time"])}

\* A call of the helper fn with args, and its result.  The helpers are
\* synchronous and keep no state: one call is made at a time.
InvokeHelper(fn, args, result) ==
    /\ helperCall = NoHelperCall
    /\ helperCall' = [fn |-> fn, args |-> args, result |-> result]
    /\ UNCHANGED <<upload, issued, svcVars, logVars>>

\* The call being made returns to its caller.
HelperReturn ==
    /\ helperCall # NoHelperCall
    /\ helperCall' = NoHelperCall
    /\ UNCHANGED <<upload, issued, svcVars, logVars>>

NextHelpers ==
    \/ \E str \in SnakeInputs :
          InvokeHelper("toLowerSnakeCase", <<str>>, toLowerSnakeCase(str))
    \/ \E document \in Documents, extraKeys \in SeqsUpTo(ExtraKeys, MaxExtraKeys) :
          InvokeHelper("stripCosmosFields", <<document, extraKeys>>,
                       stripCosmosFields(document, extraKeys))
    \/ \E status \in HttpStatuses, body \in Payloads, now \in IsoTimes :
          InvokeHelper("catch", <<status, body>>, catch(status, body, now))
    \/ HelperReturn

SpecHelpers == Init /\ [][NextHelpers]_vars

\* ----------------------------------------------- StorageService actions ---
\* The inputs of the uploads: file names of up to MaxStrLen characters,
\* blob names, folders, content types, and the values of randomUUID().
FilenameAlphabet == {"B", "."}
Filenames == SeqsUpTo(FilenameAlphabet, MaxStrLen)
BlobNames ==
    {Absent, Str(<<>>), Str(<<"m", "y", "D", "o", "c">>),
     Str(<<"i", ".", "p", "d", "f">>)}
Folders ==
    {Absent, Str(<<>>), Str(<<"r">>), Str(<<"r", "/">>),
     Str(<<"r", "/", "y", "/", "/">>), Str(<<"/">>)}
ContentTypes == {Absent, Str(""), Str("application/pdf")}
Mimetypes == {"image/jpeg"}
ContainerNames == {"uploads"}
Uuids == {UuidOf(HexDigits[i]) : i \in 1..MaxUuids}
\* randomUUID() never returns a value it has returned.
Fresh == Uuids \ {issued[i] : i \in DOMAIN issued}

\* The shape of the StorageService state.
StorageTypeOK ==
    /\ issued \in SeqsUpTo(Uuids, MaxUuids)
    /\ upload.method \in {"none", "uploadBuffer", "uploadFile"}
    /\ upload # NoUpload => upload.pc \in {"uploadData", "returned", "rejected"}

\* uploadBuffer({containerName, buffer, blobName, contentType, folder}) up
\* to `await blockBlobClient.uploadData(...)`.
CallUploadBuffer(containerName, blobName, contentType, folder, uuid) ==
    LET u == uploadBuffer(blobName, contentType, folder, uuid)
    IN  /\ upload = NoUpload
        /\ upload' =
              [method |-> "uploadBuffer", containerName |-> containerName,
               originalname |-> Absent, blobName |-> blobName,
               contentType |-> contentType, folder |-> folder,
               uuid |-> IF blobName = Absent THEN uuid ELSE Undefined,
               path |-> u.path, blobHTTPHeaders |-> u.blobHTTPHeaders,
               pc |-> "uploadData", result |-> Undefined]
        /\ issued' = IF blobName = Absent THEN Append(issued, uuid) ELSE issued
        /\ UNCHANGED <<helperCall, svcVars, logVars>>

\* uploadFile({file, blobName, containerName, folder}) up to the await of
\* the uploadBuffer it delegates to.
CallUploadFile(containerName, originalname, mimetype, blobName, folder, uuid) ==
    LET u == uploadFile(originalname, mimetype, blobName, folder, uuid)
    IN  /\ upload = NoUpload
        /\ upload' =
              [method |-> "uploadFile", containerName |-> containerName,
               originalname |-> Str(originalname), blobName |-> blobName,
               contentType |-> Str(mimetype), folder |-> folder,
               uuid |-> uuid,
               path |-> u.path, blobHTTPHeaders |-> u.blobHTTPHeaders,
               pc |-> "uploadData", result |-> Undefined]
        /\ issued' = Append(issued, uuid)
        /\ UNCHANGED <<helperCall, svcVars, logVars>>

\* uploadData is fulfilled: the call returns { url, blobName }.  The url is
\* the client's, made of the container and the blob path.
UploadFulfil ==
    /\ upload # NoUpload /\ upload.pc = "uploadData"
    /\ upload' =
          [upload EXCEPT !.pc = "returned",
                         !.result = [url |-> <<upload.containerName, upload.path>>,
                                     blobName |-> upload.path]]
    /\ UNCHANGED <<issued, helperCall, svcVars, logVars>>

\* uploadData is rejected: the call rejects.
UploadReject ==
    /\ upload # NoUpload /\ upload.pc = "uploadData"
    /\ upload' = [upload EXCEPT !.pc = "rejected"]
    /\ UNCHANGED <<issued, helperCall, svcVars, logVars>>

\* The caller has taken the outcome of the call.
UploadSettled ==
    /\ upload # NoUpload /\ upload.pc \in {"returned", "rejected"}
    /\ upload' = NoUpload
    /\ UNCHANGED <<issued, helperCall, svcVars, logVars>>

NextStorage ==
    \/ \E c \in ContainerNames, blobName \in BlobNames,
          contentType \in ContentTypes, folder \in Folders, uuid \in Fresh :
          CallUploadBuffer(c, blobName, contentType, folder, uuid)
    \/ \E c \in ContainerNames, originalname \in Filenames,
          mimetype \in Mimetypes, blobName \in BlobNames, folder \in Folders,
          uuid \in Fresh :
          CallUploadFile(c, originalname, mimetype, blobName, folder, uuid)
    \/ UploadFulfil
    \/ UploadReject
    \/ UploadSettled

SpecStorage == Init /\ [][NextStorage]_vars

\* ---------------------------------------------------- what the logs say --
\* The createSender invocations made for key k; those that returned a sender.
Created(k) == {i \in 1..Len(createLog) : createLog[i].key = k}
CreatedOk(k) == {i \in Created(k) : createLog[i].ok}

\* The keys the operations called so far were called with.
KeysUsed == {task[t].key : t \in OpTasks}

\* The calls that got a sender from getSender.
WithSender == {t \in OpTasks : task[t].sender # NoSender}

\* How often x occurs in a log.
Count(calls, x) == Cardinality({i \in 1..Len(calls) : calls[i] = x})

\* The teardown t ran as the module lifecycle runs it: onModuleDestroy is
\* invoked once, and no operation is started once it has been invoked.
SingleTeardown(t) ==
    /\ DestroyTasks = {t}
    /\ \A u \in OpTasks : ~task[u].late

\* ------------------------------------------------------------- claims ----

\* C1: over any sequence of send, sendBatch, schedule and cancelScheduled
\* calls, for a key whose createSender never threw, createSender has been
\* invoked at most once, and every call made for that key holds the sender
\* that one invocation returned.
C1_SingleCreationPerKey ==
    \A k \in Keys :
        (\A i \in Created(k) : createLog[i].ok) =>
            /\ Cardinality(Created(k)) <= 1
            /\ \A t \in OpTasks : task[t].key = k => task[t].sender \in Created(k)

\* C1 witness: three calls of three kinds, two for key "a" around one for
\* key "b"; the third reuses the sender the first one created.
C1_Witness ==
    /\ task[1].op = "send" /\ task[1].key = "a"
    /\ task[2].op = "sendBatch" /\ task[2].key = "b"
    /\ task[3].op = "cancelScheduled" /\ task[3].key = "a"
    /\ task[3].pc = "done"
    /\ task[3].sender = task[1].sender /\ task[1].sender # NoSender
    /\ Cardinality(Created("a")) = 1
    /\ \A i \in 1..Len(createLog) : createLog[i].ok

\* C2: calls for one key that are in flight together (each suspended at an
\* await) hold one and the same sender; at most one sender is ever created
\* for a key, a key whose createSender did not throw has had exactly one
\* invocation, and every sender created is the one the cache holds for its
\* key (none is orphaned).
C2_NoCreationRace ==
    /\ \A t, u \in OpTasks :
          (task[t].pc \in Awaiting /\ task[u].pc \in Awaiting
             /\ task[t].key = task[u].key) => task[t].sender = task[u].sender
    /\ \A k \in KeysUsed :
          /\ Cardinality(CreatedOk(k)) <= 1
          /\ (\A i \in Created(k) : createLog[i].ok) => Cardinality(Created(k)) = 1
          /\ \A i \in CreatedOk(k) : MapHas(senders, k) /\ MapGet(senders, k) = i

\* C2 witness: a sendBatch suspended at its first flush, and a send and a
\* schedule for the same key started meanwhile and suspended too, with one
\* createSender invocation between the three.
C2_Witness ==
    /\ task[1].op = "sendBatch" /\ task[1].pc = "batch.42"
    /\ task[2].op = "send" /\ task[2].pc = "send.27"
    /\ task[3].op = "schedule" /\ task[3].pc = "schedule.60"
    /\ task[1].key = task[2].key /\ task[2].key = task[3].key
    /\ Len(createLog) = 1 /\ createLog[1].ok
    /\ task[1].sender = 1 /\ task[2].sender = 1 /\ task[3].sender = 1

C4_TeardownNotAborted ==
    \A t \in Tasks :
        (SingleTeardown(t) /\ task[t].pc \in {"done", "failed"}) =>
            /\ \A i \in 1..Len(senders) : Count(closeLog, senders[i].sender) >= 1
            /\ Count(closeLog, Client) >= 1

\* ceil(n / c)
CeilDiv(n, c) == (n + c - 1) \div c

\* Every payload of call t has size 1: a batch of capacity c accepts
\* exactly c messages.
TightPacking(t) == \A j \in 1..Len(task[t].bodies) : task[t].bodies[j] = 1

\* C5: a completed sendBatch of n payloads into batches that accept exactly
\* c >= 1 messages each has called sendMessages ceil(n/c) times, and no batch
\* it ever passed to sendMessages was empty.
C5_BatchCount ==
    \A t \in Tasks :
        (task[t].op = "sendBatch" /\ TightPacking(t)) =>
            /\ \A j \in 1..Len(task[t].sent) : Len(task[t].sent[j]) > 0
            /\ task[t].pc = "done" =>
                  Len(task[t].sent) = CeilDiv(Len(task[t].bodies), task[t].cap)

\* C5 witness: capacity 2 and three payloads give two sends, {1,2} then {3}.
C5_Witness ==
    /\ task[1].op = "sendBatch" /\ task[1].pc = "done"
    /\ task[1].cap = 2 /\ task[1].bodies = <<1, 1, 1>>
    /\ task[1].sent = << <<1, 2>>, <<3>> >>

\* C6: a sendBatch one of whose payloads does not fit an empty batch does
\* not complete successfully.
C6_OversizeIsFatal ==
    \A t \in Tasks :
        (task[t].op = "sendBatch" /\ task[t].pc = "done") =>
            \A j \in 1..Len(task[t].bodies) : task[t].bodies[j] <= task[t].cap

\* C7: a sendBatch called with no payloads never calls sendMessages.
C7_EmptyInputNoSend ==
    \A t \in Tasks :
        (task[t].op = "sendBatch" /\ task[t].bodies = <<>>) => task[t].sent = <<>>

\* C7 witness: a sendBatch of no payloads that got its sender and its first
\* batch and completed.
C7_Witness ==
    /\ task[1].op = "sendBatch" /\ task[1].bodies = <<>>
    /\ task[1].sender # NoSender /\ task[1].pc = "done"

\* C8 as stated: createSender has been invoked as often as there are distinct
\* keys used so far, each call holds a sender created with its own key, and
\* each cache entry is a sender created with the entry's key.
C8_CreationsEqualKeysUsed ==
    /\ Len(createLog) = Cardinality(KeysUsed)
    /\ \A t \in WithSender : createLog[task[t].sender].key = task[t].key
    /\ \A i \in 1..Len(senders) : createLog[senders[i].sender].key = senders[i].key

\* C8 amended: the createSender invocations that returned a sender are as
\* many as the distinct keys for which a call got a sender (an invocation
\* that threw stores nothing, and the next call for its key invokes again);
\* each call holds the sender created with its own key, which is the one the
\* cache holds for that key, and distinct keys have distinct senders.
C8_Isolation ==
    /\ Cardinality({i \in 1..Len(createLog) : createLog[i].ok})
          = Cardinality({task[t].key : t \in WithSender})
    /\ \A t \in WithSender :
          /\ createLog[task[t].sender].key = task[t].key
          /\ MapHas(senders, task[t].key)
          /\ MapGet(senders, task[t].key) = task[t].sender
    /\ \A i \in 1..Len(senders) :
          /\ createLog[senders[i].sender].ok
          /\ createLog[senders[i].sender].key = senders[i].key
    /\ \A i, j \in 1..Len(senders) :
          i # j => /\ senders[i].key # senders[j].key
                   /\ senders[i].sender # senders[j].sender

\* C8 witness: calls for "a", "b", "a" again, in flight together; two
\* senders, and the third call holds the first one's.
C8_Witness ==
    /\ task[1].key = "a" /\ task[2].key = "b" /\ task[3].key = "a"
    /\ \A t \in Tasks : task[t].pc \in Awaiting
    /\ Len(createLog) = 2 /\ Len(senders) = 2
    /\ task[1].sender = 1 /\ task[2].sender = 2 /\ task[3].sender = 1

\* C9: a call during which createSender throws ends there as failed, with
\* the cache as it was and no entry for the key; and every entry the cache
\* ever holds is a sender that createSender returned for the entry's key.
C9_FailedCreationNotStored ==
    [][/\ \A t \in Tasks :
             (task[t].pc = "idle" /\ task'[t].cause = "createSender") =>
                 /\ task'[t].pc = "failed"
                 /\ task'[t].sender = NoSender /\ task'[t].sent = <<>>
                 /\ senders' = senders
                 /\ ~MapHas(senders', task'[t].key)
       /\ Len(createLog') > Len(createLog) =>
             (~createLog'[Len(createLog')].ok =>
                 \E t \in Tasks : task[t].pc = "idle" /\ task'[t].cause = "createSender")
       /\ \A i \in 1..Len(senders') :
             /\ senders'[i].sender \in 1..Len(createLog')
             /\ createLog'[senders'[i].sender].ok
             /\ createLog'[senders'[i].sender].key = senders'[i].key]_vars

\* C9 witness: createSender threw for key "b" while "a" has its sender: the
\* call failed and the cache holds "a" alone.
C9_Witness ==
    /\ task[1].key = "a" /\ task[1].sender = 1
    /\ task[2].key = "b" /\ task[2].cause = "createSender" /\ task[2].pc = "failed"
    /\ Len(senders) = 1 /\ senders[1].key = "a"
    /\ ~createLog[2].ok

\* The awaits of sendMessages, scheduleMessages and cancelScheduledMessages.
SenderCalls == {"send.27", "batch.42", "batch.49", "schedule.60", "cancel.65"}

\* C10: when the sender rejects a sendMessages, scheduleMessages or
\* cancelScheduledMessages call, the operation ends as failed without
\* issuing anything more, then or later, and the cache is left as it was:
\* the key still maps to the sender the call used.
C10_RejectionLeavesCache ==
    [][\A t \in OpTasks :
          /\ (task[t].pc \in SenderCalls /\ task'[t].cause = "rejected") =>
                /\ task'[t].pc = "failed"
                /\ task'[t].sent = task[t].sent
                /\ senders' = senders
                /\ MapHas(senders', task[t].key)
                /\ MapGet(senders', task[t].key) = task[t].sender
          /\ task[t].pc = "failed" => task'[t] = task[t]]_vars

\* C10 witness: a send for "a" was rejected, with "b" cached as well; the
\* cache still holds both senders.
C10_Witness ==
    /\ task[1].op = "sendBatch" /\ task[1].key = "b" /\ task[1].sender = 1
    /\ task[2].op = "send" /\ task[2].key = "a"
    /\ task[2].pc = "failed" /\ task[2].cause = "rejected"
    /\ Len(senders) = 2 /\ MapGet(senders, "a") = task[2].sender

\* C11: the cache only grows: over every step of send, sendBatch, schedule
\* and cancelScheduled (a call, a fulfilment, a rejection, a createSender
\* that throws), a key that has a sender keeps that very sender.
C11_EntriesOnlyAccumulate ==
    [][\A k \in Keys :
          MapHas(senders, k) =>
              /\ MapHas(senders', k)
              /\ MapGet(senders', k) = MapGet(senders, k)]_vars

\* C11 witness: "a" got its sender from a send that completed; then a
\* cancelScheduled for "a" was rejected and a schedule for "b" created a
\* second entry; "a" still has its first sender, ahead of "b".
C11_Witness ==
    /\ task[1].op = "send" /\ task[1].key = "a" /\ task[1].pc = "done"
    /\ task[2].op = "cancelScheduled" /\ task[2].key = "a"
    /\ task[2].cause = "rejected"
    /\ task[3].op = "schedule" /\ task[3].key = "b" /\ task[3].pc = "done"
    /\ senders = <<[key |-> "a", sender |-> 1], [key |-> "b", sender |-> 2]>>

\* C12: once a teardown has completed, the sender cache is empty.
C12_CacheEmptyAfterShutdown ==
    \A t \in Tasks :
        (SingleTeardown(t) /\ task[t].pc = "done") => senders = <<>>

\* C13: however often onModuleDestroy is invoked, close() is issued at most
\* once on each sender and at most once on the client.
C13_NoDoubleClose ==
    /\ \A i \in 1..Len(createLog) : Count(closeLog, i) <= 1
    /\ Count(closeLog, Client) <= 1

\* The messages call t has passed to its sender so far, in the order passed.
RECURSIVE Flatten(_)
Flatten(ss) == IF ss = <<>> THEN <<>> ELSE Head(ss) \o Flatten(Tail(ss))

\* C14: a call issues its sender calls one at a time, each in a step of its
\* own that is never taken while the call still awaits an earlier sender
\* call, and a call that has settled issues nothing more: so the calls a
\* caller makes one after the other, awaiting each, reach the sender in the
\* order made, and they reach one and the same sender when made for one
\* key.  The batches of one sendBatch hold the payloads in input order.
C14_IssueOrder ==
    [][\A t \in OpTasks \cup {u \in Tasks : task[u].pc = "idle"} :
          /\ task[t].pc \in {"done", "failed"} => task'[t].sent = task[t].sent
          /\ Len(task'[t].sent) <= Len(task[t].sent) + 1
          /\ SubSeq(task'[t].sent, 1, Len(task[t].sent)) = task[t].sent
          /\ Len(task'[t].sent) > Len(task[t].sent) => task[t].pc \notin SenderCalls
          /\ task'[t].op = "sendBatch" =>
                LET f == Flatten(task'[t].sent)
                IN  \A i, j \in 1..Len(f) : i < j => f[i] < f[j]
          /\ \A u \in Tasks :
                (task'[t].op \in Ops /\ task'[u].op \in Ops
                   /\ task'[u].key = task'[t].key
                   /\ task'[u].sender # NoSender /\ task'[t].sender # NoSender)
                      => task'[u].sender = task'[t].sender]_vars

\* C14 witness: a sendBatch for "a" went out as <<1>> then <<2>> and
\* completed; a send for "a" made after it is at its sender call, on the
\* same sender.
C14_Witness ==
    /\ task[1].op = "sendBatch" /\ task[1].key = "a" /\ task[1].pc = "done"
    /\ task[1].sent = << <<1>>, <<2>> >>
    /\ task[2].op = "send" /\ task[2].key = "a" /\ task[2].pc = "send.27"
    /\ task[2].sender = task[1].sender
    /\ task[3].pc = "idle"

\* C15: a cancelScheduled(key, n) that got a sender holds the sender the
\* cache has for key, the one created with that key and the only one ever
\* created for it, and has called cancelScheduledMessages on it once, with
\* the one-element collection <<n>>; one whose createSender threw has
\* called nothing.
C15_CancelOnce ==
    \A t \in Tasks :
        task[t].op = "cancelScheduled" =>
            IF task[t].sender = NoSender
            THEN task[t].cause = "createSender" /\ task[t].sent = <<>>
            ELSE /\ MapHas(senders, task[t].key)
                 /\ MapGet(senders, task[t].key) = task[t].sender
                 /\ CreatedOk(task[t].key) = {task[t].sender}
                 /\ task[t].sent = << <<task[t].arg>> >>

\* C15 witness: a schedule for "a" returned 41 and a cancelScheduled("a",
\* 41) completed on the same sender, the only one created; another case
\* cancels 42.
C15_Witness ==
    /\ task[1].op = "schedule" /\ task[1].key = "a" /\ task[1].result = <<41>>
    /\ task[2].op = "cancelScheduled" /\ task[2].key = "a" /\ task[2].arg = 41
    /\ task[2].pc = "done" /\ task[2].sent = << <<41>> >>
    /\ task[2].sender = task[1].sender /\ Len(createLog) = 1

\* C16: a schedule that got a sender holds the sender the cache has for its
\* key and has called scheduleMessages on it once, with the message made of
\* its body and its options' messageId, and with its enqueueAt; once the
\* sender has answered, schedule's result is the sequence numbers the sender
\* answered with, all of them and in their order, and it has no result
\* before.
C16_SchedulePassThrough ==
    \A t \in Tasks :
        (task[t].op = "schedule" /\ task[t].sender # NoSender) =>
            /\ MapHas(senders, task[t].key)
            /\ MapGet(senders, task[t].key) = task[t].sender
            /\ Len(task[t].sent) = 1
            /\ Len(task[t].sent[1]) = 2
            /\ task[t].sent[1][1].body = task[t].body
            /\ task[t].sent[1][1].messageId =
                  (IF task[t].options = NoOptions THEN Undefined ELSE "m1")
            /\ task[t].sent[1][2] = task[t].enqueueAt
            /\ task[t].result = (IF task[t].pc = "done" THEN task[t].returned ELSE <<>>)

\* C16 witness: schedule("b", body, 2, {messageId}) on the sender a
\* cancelScheduled created before it; the sender answered <<42, 41>> and
\* so did schedule.
C16_Witness ==
    /\ task[1].op = "cancelScheduled" /\ task[1].key = "b"
    /\ task[2].op = "schedule" /\ task[2].key = "b" /\ task[2].pc = "done"
    /\ task[2].sender = task[1].sender
    /\ task[2].enqueueAt = 2 /\ task[2].options # NoOptions
    /\ task[2].sent = << <<[body |-> 1, messageId |-> "m1"], 2>> >>
    /\ task[2].returned = <<42, 41>> /\ task[2].result = <<42, 41>>

\* ------------------------------------------------ LoggerService claims ---
\* The seven logging methods; the three tracking methods.
LoggingMethods == {"log", "warn", "debug", "verbose", "error", "critical", "fatal"}
TrackingMethods == {"trackEvent", "trackMetric", "trackDependency"}

\* The call being made is made inside a setRequestContext callback, whose
\* context (that of the innermost one) is Ctx.
InScope == logCall.scopes # <<>>
Ctx == logCall.scopes[Len(logCall.scopes)]

\* The metadata object the caller passed, by the method's signature: the
\* second argument of a logging method when it is an object, else the fourth
\* of error; the properties argument of a tracking method; {} when none.
PassedMetadata ==
    LET a == logCall.args
        at(i) == IF a[i].type = "object" THEN a[i].value ELSE <<>>
    IN  CASE logCall.method = "error" ->
                 IF a[2].type = "object" THEN a[2].value ELSE at(4)
          [] logCall.method = "trackDependency" -> at(4)
          [] OTHER -> at(2)

\* The properties of the one item the call handed to the telemetry client.
Props == logCall.tracked[1].properties

\* Outside every scope the properties have no field but context, timestamp
\* and the fields of the call's own metadata, with the metadata's values.
NoContextFields ==
    /\ DOMAIN Props \subseteq {"context", "timestamp"} \cup DOMAIN PassedMetadata
    /\ \A k \in DOMAIN PassedMetadata : Props[k] = PassedMetadata[k]

\* C17 as stated: a call made inside a setRequestContext(ctx, cb) callback
\* has every field of ctx, with ctx's value, in the properties of its item;
\* a call made outside every scope has no request-context field in them.
C17_ContextFieldsCarried ==
    logCall # NoCall =>
        IF InScope
        THEN \A k \in DOMAIN Ctx : k \in DOMAIN Props /\ Props[k] = Ctx[k]
        ELSE NoContextFields

\* C17 amended: a call made inside a setRequestContext(ctx, cb) callback
\* has every field of ctx in the properties of its item, with ctx's value
\* unless the call's metadata has the same key (then with the metadata's);
\* a call made outside every scope, also after a scope has ended, has no
\* request-context field in them.
C17_ContextFieldsUnlessOverridden ==
    logCall # NoCall =>
        IF InScope
        THEN \A k \in DOMAIN Ctx :
                /\ k \in DOMAIN Props
                /\ Props[k] = (IF k \in DOMAIN PassedMetadata
                               THEN PassedMetadata[k] ELSE Ctx[k])
        ELSE NoContextFields

\* C17 witness: warn(message, {orderId}) inside the callback of a scope
\* nested in another one: the item has the inner context's requestId and
\* not the outer one's userId.
C17_Witness ==
    /\ logCall.method = "warn"
    /\ logCall.scopes = <<[requestId |-> "req-1", userId |-> "user-1"],
                          [requestId |-> "req-2"]>>
    /\ PassedMetadata = [orderId |-> "o-1"]
    /\ Props.requestId = "req-2" /\ Props.orderId = "o-1"
    /\ "userId" \notin DOMAIN Props

\* C18: a key that the active request context and the metadata passed to a
\* logging or tracking call both have has the metadata's value in the
\* properties of the item.
C18_MetadataWins ==
    (logCall # NoCall /\ InScope) =>
        \A k \in DOMAIN Ctx \cap DOMAIN PassedMetadata :
            k \in DOMAIN Props /\ Props[k] = PassedMetadata[k]

\* C18 witness: trackEvent(name, {userId: "meta-user"}) inside a scope whose
\* context has userId "user-1".
C18_Witness ==
    /\ logCall.method = "trackEvent" /\ InScope
    /\ Ctx = [requestId |-> "req-1", userId |-> "user-1"]
    /\ PassedMetadata = [userId |-> "meta-user"]
    /\ Props.userId = "meta-user" /\ Props.requestId = "req-1"

\* C19: the properties of every item have the timestamp the logger made
\* for the call and, as context, the logger's context name.
C19_TimestampAndContext ==
    logCall # NoCall =>
        /\ Len(logCall.tracked) = 1
        /\ Props.timestamp = logCall.now
        /\ Props.context = logCall.name

\* The telemetry call and the severity fixed for each logging method.
KindOf(method) ==
    IF method \in {"error", "critical", "fatal"} THEN "trackException"
    ELSE "trackTrace"
SeverityOf(method) ==
    CASE method = "log" -> "Information"
      [] method = "warn" -> "Warning"
      [] method \in {"debug", "verbose"} -> "Verbose"
      [] method = "error" -> "Error"
      [] method \in {"critical", "fatal"} -> "Critical"

\* C20: a call of a logging method hands exactly one item to the telemetry
\* client, of the kind and severity fixed for the method; and fatal does
\* what critical does with the same arguments: the exception made of the
\* message, the second argument as metadata when it is an object and as the
\* stack of the console error otherwise, the third as the console context.
C20_KindAndSeverity ==
    logCall.method \in LoggingMethods =>
        /\ Len(logCall.tracked) = 1
        /\ logCall.tracked[1].kind = KindOf(logCall.method)
        /\ logCall.tracked[1].severity = SeverityOf(logCall.method)
        /\ logCall.method \in {"critical", "fatal"} =>
              LET a == logCall.args
                  shown == logCall.console[Len(logCall.console)]
              IN  /\ logCall.tracked[1].exception.message = a[1]
                  /\ \A k \in DOMAIN PassedMetadata : Props[k] = PassedMetadata[k]
                  /\ shown.level = "error" /\ shown.message = a[1]
                  /\ shown.stack = (IF a[2].type = "object" THEN Absent ELSE a[2])
                  /\ shown.context = (IF a[3].type = "string" THEN a[3].value
                                      ELSE logCall.name)

\* C20 witness: fatal(message, "Label") hands one exception of severity
\* Critical to the client and the stack to the console error.
C20_Witness ==
    /\ logCall.method = "fatal"
    /\ logCall.args[2] = Str("Label")
    /\ Len(logCall.tracked) = 1
    /\ logCall.tracked[1].kind = "trackException"
    /\ logCall.tracked[1].severity = "Critical"
    /\ logCall.console[Len(logCall.console)].stack = Str("Label")

\* C21: the item of a trackDependency call has, as resultCode, the string
\* of the resultCode supplied ("0" for 0, "404" for 404 and for "404"), and
\* with none supplied "200" when success is true and "500" when it is false.
C21_ResultCodeString ==
    logCall.method = "trackDependency" =>
        LET success == logCall.args[2]
            rc == logCall.args[3]
            sent == logCall.tracked[1].resultCode
        IN  /\ Len(logCall.tracked) = 1
            /\ sent \in {"0", "200", "404", "500"}
            /\ rc = Absent => sent = (IF success THEN "200" ELSE "500")
            /\ rc = Str("404") => sent = "404"
            /\ rc = [type |-> "number", value |-> 404] => sent = "404"
            /\ rc = [type |-> "number", value |-> 0] => sent = "0"

\* C21 witness: a failed dependency reported with resultCode 0 is sent with
\* resultCode "0".
C21_Witness ==
    /\ logCall.method = "trackDependency"
    /\ logCall.args[2] = FALSE
    /\ logCall.args[3] = [type |-> "number", value |-> 0]
    /\ logCall.tracked[1].resultCode = "0"

\* C28: a call during which the telemetry client threw does not throw to
\* its caller; and when it is a call of log, warn, debug, verbose, error or
\* critical (or of fatal, which is critical), the console logger's method
\* has still been called with the message.
C28_TelemetryFailureContained ==
    (logCall # NoCall /\ logCall.clientThrew) =>
        /\ ~logCall.threw
        /\ logCall.method \in LoggingMethods =>
              /\ Len(logCall.console) >= 1
              /\ LET shown == logCall.console[Len(logCall.console)]
                 IN  /\ shown.message = logCall.args[1]
                     /\ shown.level =
                           (IF logCall.method \in {"error", "critical", "fatal"}
                            THEN "error" ELSE logCall.method)

\* C28 witness: the client threw from trackException during error(message):
\* the failure was reported with console.warn, the message went to the
\* console error, and the call did not throw.
C28_Witness ==
    /\ logCall.method = "error" /\ logCall.clientThrew /\ ~logCall.threw
    /\ Len(logCall.console) = 2
    /\ logCall.console[1].level = "console.warn"
    /\ logCall.console[2].level = "error"
    /\ logCall.console[2].message = "boom"

\* C26: for a sendBatch all of whose payloads fit an empty batch, the
\* batches passed to sendMessages so far, put end to end, are the payloads
\* 1, 2, ... in input order, each once; and once the call has completed
\* they are all the payloads.
C26_AllSentOnceInOrder ==
    \A t \in Tasks :
        (/\ task[t].op = "sendBatch"
         /\ \A j \in 1..Len(task[t].bodies) : task[t].bodies[j] <= task[t].cap) =>
            LET f == Flatten(task[t].sent)
            IN  /\ f = [j \in 1..Len(f) |-> j]
                /\ Len(f) <= Len(task[t].bodies)
                /\ task[t].pc = "done" => Len(f) = Len(task[t].bodies)

\* C26 witness: payloads of sizes 2, 1, 2, 1 into batches of capacity 3 went
\* out as <<1, 2>> and <<3, 4>>.
C26_Witness ==
    /\ task[1].op = "sendBatch" /\ task[1].pc = "done"
    /\ task[1].bodies = <<2, 1, 2, 1>> /\ task[1].cap = 3
    /\ task[1].sent = << <<1, 2>>, <<3, 4>> >>

\* C27: a call started before onModuleDestroy was invoked issues no
\* sendMessages, scheduleMessages or cancelScheduledMessages on a sender on
\* which close() has been issued.
C27_NoCallAfterClose ==
    [][\A t \in Tasks :
          (/\ task'[t].op \in Ops /\ ~task'[t].late
           /\ Len(task'[t].sent) > Len(task[t].sent))
              => Count(closeLog, task'[t].sender) = 0]_vars

\* ----------------------------------------------------------- helpers -----
\* The helper call being made, if it is one of fn.
HelperIs(fn) == helperCall # NoHelperCall /\ helperCall.fn = fn

\* C22 (as stated): toLowerSnakeCase gives a string without capitals,
\* whitespace or dashes, and gives the documented results: 'myFileName' ->
\* 'my_file_name', 'My Photo' -> 'my_photo', 'hello-world' -> 'hello_world'.
C22_DocumentedResults ==
    HelperIs("toLowerSnakeCase") =>
        LET str == helperCall.args[1]
            result == helperCall.result
        IN  /\ \A i \in 1..Len(result) :
                  ~IsUpper(result[i]) /\ ~IsSeparator(result[i])
            /\ str = myFileName =>
                  result = <<"m", "y", "_", "f", "i", "l", "e", "_",
                             "n", "a", "m", "e">>
            /\ str = MyPhoto =>
                  result = <<"m", "y", "_", "p", "h", "o", "t", "o">>
            /\ str = helloWorld =>
                  result = <<"h", "e", "l", "l", "o", "_",
                             "w", "o", "r", "l", "d">>

\* C25: stripCosmosFields(document, extraKeys) returns an object whose keys
\* are exactly the keys of document that neither start with '_' nor appear
\* in extraKeys, each with the value it has in document.
C25_StrippedKeys ==
    HelperIs("stripCosmosFields") =>
        LET document == helperCall.args[1]
            extraKeys == helperCall.args[2]
            result == helperCall.result
        IN  /\ DOMAIN result =
                  {k \in DOMAIN document :
                      /\ ~(k # <<>> /\ k[1] = "_")
                      /\ ~\E i \in 1..Len(extraKeys) : extraKeys[i] = k}
            /\ \A k \in DOMAIN result : result[k] = document[k]

\* A document with a system field, a field named in extraKeys and a field
\* that stays has been stripped.
C25_Witness ==
    /\ HelperIs("stripCosmosFields")
    /\ DOMAIN helperCall.args[1] =
          {<<"_", "t", "s">>, <<"i", "d">>, <<"a", "_">>}
    /\ helperCall.args[2] = <<<<"i", "d">>, <<"x">>>>
    /\ DOMAIN helperCall.result = {<<"a", "_">>}

\* C29 (as stated): the HTTP status set on the response equals
\* exception.getStatus() and the statusCode field of the JSON body equals
\* that same status, whatever the payload contains; a non-object payload is
\* placed under `message`.
C29_StatusCarried ==
    HelperIs("catch") =>
        LET status == helperCall.args[1]
            body == helperCall.args[2]
            response == helperCall.result
        IN  /\ response.status = status
            /\ response.json.statusCode = status
            /\ body.type = "string" => response.json.message = body.value

\* -------------------------------------------------------- StorageService --
\* The upload being made, if it is a call of method.
UploadIs(method) == upload # NoUpload /\ upload.method = method

\* str is 32 hex digits.
IsHex32(str) ==
    /\ Len(str) = 32
    /\ \A i \in 1..32 : \E j \in DOMAIN HexDigits : HexDigits[j] = str[i]

\* folder without its trailing slashes: its longest prefix that does not
\* end in a slash.
WithoutTrailingSlashes(folder) ==
    LET n == CHOOSE n \in 0..Len(folder) :
                /\ n = 0 \/ folder[n] # "/"
                /\ \A i \in (n + 1)..Len(folder) : folder[i] = "/"
    IN  SubSeq(folder, 1, n)

\* The path of name under the folder of the upload being made.
UnderFolder(name, noFolder) ==
    IF noFolder THEN name
    ELSE WithoutTrailingSlashes(upload.folder.value) \o <<"/">> \o name

\* The last dot of the original filename, 0 if it has none.
LastDot ==
    LET filename == upload.originalname.value
    IN  IF \E i \in 1..Len(filename) : filename[i] = "."
        THEN CHOOSE i \in 1..Len(filename) :
                /\ filename[i] = "."
                /\ \A j \in (i + 1)..Len(filename) : filename[j] # "."
        ELSE 0

\* C23: uploadFile uploads under a name <snake(base)>_<32 hex chars>[.<ext>]
\* (below the folder, if one is given): base is the supplied blobName or
\* else the original filename up to its last dot, ext the part of the
\* original filename after its last dot; a filename without a dot gives a
\* name with no extension and no dot added; the suffix is the value
\* randomUUID() returned to this call, different from every value it
\* returned before, also when blobName is supplied.
C23_UploadFileName ==
    UploadIs("uploadFile") =>
        LET filename == upload.originalname.value
            base == IF upload.blobName # Absent THEN upload.blobName.value
                    ELSE IF LastDot = 0 THEN filename
                    ELSE SubSeq(filename, 1, LastDot - 1)
            ext == IF LastDot = 0 THEN <<>>
                   ELSE SubSeq(filename, LastDot + 1, Len(filename))
            suffix == removeDashes(upload.uuid)
            name == toLowerSnakeCase(base) \o <<"_">> \o suffix
                        \o (IF ext = <<>> THEN <<>> ELSE <<".">> \o ext)
        IN  /\ upload.path =
                  UnderFolder(name, upload.folder \in {Absent, Str(<<>>)})
            /\ IsHex32(suffix)
            /\ issued # <<>> /\ upload.uuid = issued[Len(issued)]
            /\ \A i \in 1..(Len(issued) - 1) : issued[i] # upload.uuid
            /\ LastDot = 0 =>
                  upload.path =
                      UnderFolder(toLowerSnakeCase(base) \o <<"_">> \o suffix,
                                  upload.folder \in {Absent, Str(<<>>)})

\* A second uploadFile, with a blobName and a filename of two dots, has
\* uploaded.
C23_Witness ==
    /\ UploadIs("uploadFile") /\ upload.pc = "returned"
    /\ upload.blobName = Str(<<"m", "y", "D", "o", "c">>)
    /\ upload.originalname = Str(<<"B", ".", "B">>)
    /\ upload.folder = Absent
    /\ Len(issued) = 2
    /\ upload.path =
          <<"m", "y", "_", "d", "o", "c", "_">> \o Repeat(HexDigits[2], 32)
              \o <<".", "B">>

\* The name uploadBuffer uploads under: the supplied blobName verbatim, or
\* blob_<32 hex chars> when none is given.
C24_Name ==
    IF upload.blobName # Absent THEN upload.blobName.value
    ELSE <<"b", "l", "o", "b", "_">> \o removeDashes(upload.uuid)

\* What C24 says of the upload being made, for a reading of "no folder is
\* given".
C24_PathIs(noFolder) ==
    UploadIs("uploadBuffer") =>
        /\ upload.path = UnderFolder(C24_Name, noFolder)
        /\ upload.blobName = Absent => IsHex32(removeDashes(upload.uuid))
        /\ upload.pc = "returned" => upload.result.blobName = upload.path

\* C24 (as stated): uploadBuffer uploads to, and returns as
\* UploadResult.blobName, the path folder'/blobName, folder' the folder
\* without its trailing slashes; when no folder is given the supplied
\* blobName is used verbatim, and when no blobName is given a generated name
\* blob_<32 hex chars> is used.
C24_BlobPath == C24_PathIs(upload.folder = Absent)

\* C24 (amended): the same, where an empty folder counts as no folder.
C24_BlobPathEmptyFolder == C24_PathIs(upload.folder \in {Absent, Str(<<>>)})

\* An uploadBuffer with a folder of several trailing slashes and no
\* blobName has returned.
C24_Witness ==
    /\ UploadIs("uploadBuffer") /\ upload.pc = "returned"
    /\ upload.blobName = Absent
    /\ upload.folder = Str(<<"r", "/", "y", "/", "/">>)
    /\ upload.result.blobName =
          <<"r", "/", "y", "/", "b", "l", "o", "b", "_">>
              \o Repeat(HexDigits[1], 32)

====
